---- MODULE Spec2Model ----
(***************************************************************************)
(* Capital gains tax calculator (tax_calculator_simulator.py).             *)
(*                                                                         *)
(* The script loads a transaction log, builds the balance of purchase      *)
(* orders (lots), and loops over the events that change the balance (Sell  *)
(* and Swap), depleting lots with the configured METHOD and recording      *)
(* taxes and balance snapshots.  One step of the model is one iteration of *)
(* the event loop, or the assembly of the tax table after the loop.        *)
(*                                                                         *)
(* Numbers are the floats of the script (IEEE 754 binary64), every         *)
(* operation rounded to the nearest float, ties to even, with NaN and the  *)
(* infinities that a division by zero gives.  The sign of zero, overflow   *)
(* and subnormal numbers are left out, and so is the Currency column.      *)
(***************************************************************************)
EXTENDS Integers, Sequences, FiniteSets, TLC

----------------------------------------------------------------------------
(* Bounds of the model *)

\* purchase orders (acquisitions) in the log
MaxPurchases == 2
\* events (sells and swaps) in the log
MaxEvents == 2
\* dates run from 1; every event can have a date of its own after the first
MaxDate == MaxEvents + 1

----------------------------------------------------------------------------
(* Natural numbers of any size: sequences of limbs below 2^27, lowest first *)

Limb == 2^27

Abs(n) == IF n < 0 THEN -n ELSE n

\* the number without its leading zero limbs
RECURSIVE NTrim(_)
NTrim(a) == IF a # <<>> /\ a[Len(a)] = 0 THEN NTrim(SubSeq(a, 1, Len(a) - 1)) ELSE a

NLimb(a, k) == IF k <= Len(a) THEN a[k] ELSE 0

RECURSIVE NAddFrom(_, _, _, _)
NAddFrom(a, b, k, carry) ==
    IF k > Len(a) /\ k > Len(b)
    THEN (IF carry = 0 THEN <<>> ELSE <<carry>>)
    ELSE LET t == NLimb(a, k) + NLimb(b, k) + carry
         IN <<t % Limb>> \o NAddFrom(a, b, k + 1, t \div Limb)

NAdd(a, b) == NTrim(NAddFrom(a, b, 1, 0))

\* a - b for a >= b
RECURSIVE NSubFrom(_, _, _, _)
NSubFrom(a, b, k, borrow) ==
    IF k > Len(a) THEN <<>>
    ELSE LET t == a[k] - NLimb(b, k) - borrow
         IN <<t % Limb>> \o NSubFrom(a, b, k + 1, IF t < 0 THEN 1 ELSE 0)

\* a < b, for numbers without leading zero limbs
RECURSIVE NLessFrom(_, _, _)
NLessFrom(a, b, k) ==
    IF k = 0 THEN FALSE
    ELSE IF a[k] # b[k] THEN a[k] < b[k]
    ELSE NLessFrom(a, b, k - 1)

NLess(a, b) ==
    IF Len(a) # Len(b) THEN Len(a) < Len(b) ELSE NLessFrom(a, b, Len(a))

RECURSIVE BitLen(_)
BitLen(x) == IF x = 0 THEN 0 ELSE 1 + BitLen(x \div 2)

\* the number of bits of a number without leading zero limbs
NBitLen(a) == IF a = <<>> THEN 0 ELSE 27 * (Len(a) - 1) + BitLen(a[Len(a)])

\* a * 2^r for r < 27
RECURSIVE NShlBits(_, _, _, _)
NShlBits(a, r, k, carry) ==
    IF k > Len(a) THEN (IF carry = 0 THEN <<>> ELSE <<carry>>)
    ELSE <<(a[k] % 2^(27 - r)) * 2^r + carry>>
             \o NShlBits(a, r, k + 1, a[k] \div 2^(27 - r))

NShl(a, n) ==
    IF a = <<>> THEN <<>>
    ELSE [k \in 1..(n \div 27) |-> 0] \o NShlBits(a, n % 27, 1, 0)

\* a \div 2^n
NShr(a, n) ==
    LET q == n \div 27
        r == n % 27
    IN NTrim([k \in 1..(Len(a) - q) |->
                 (a[k + q] \div 2^r) + (NLimb(a, k + q + 1) % 2^r) * 2^(27 - r)])

\* bit n of a (bit 0 is the lowest)
NBit(a, n) == (NLimb(a, n \div 27 + 1) \div 2^(n % 27)) % 2

\* a % 2^n = 0
NLowZero(a, n) ==
    /\ \A k \in 1..(n \div 27) : NLimb(a, k) = 0
    /\ NLimb(a, n \div 27 + 1) % 2^(n % 27) = 0

\* q or q + 1: q is the whole part of a number, half says that the rest is
\* a half or more, more that it is not just a half
RoundUp(q, half, more) ==
    IF half /\ (more \/ NLimb(q, 1) % 2 = 1) THEN NAdd(q, <<1>>) ELSE q

\* a / 2^n rounded to the nearest integer, ties to even; sticky: a stands
\* for a value a little above it
NShrRound(a, n, sticky) ==
    IF n = 0 THEN a
    ELSE RoundUp(NShr(a, n), NBit(a, n - 1) = 1, sticky \/ ~NLowZero(a, n - 1))

\* the product of two limbs, as two limbs
Mul27(a, b) ==
    LET a1 == a \div 2^14
        a0 == a % 2^14
        b1 == b \div 2^14
        b0 == b % 2^14
        cross == a1 * b0 + a0 * b1
        t == a0 * b0 + (cross % 2^13) * 2^14
    IN <<t % Limb, 2 * (a1 * b1) + cross \div 2^13 + t \div Limb>>

\* the product of two numbers of two limbs
NMul2(a, b) ==
    NAdd(NAdd(Mul27(a[1], b[1]), <<0, 0>> \o Mul27(a[2], b[2])),
         <<0>> \o NAdd(Mul27(a[1], b[2]), Mul27(a[2], b[1])))

\* n more bits of the quotient by d of the remainder r < d (two limbs each):
\* <<quotient bits, remainder>>
RECURSIVE DivBits(_, _, _, _)
DivBits(r, d, n, q) ==
    IF n = 0 THEN <<q, r>>
    ELSE LET lo2 == 2 * r[1]
             r2 == <<lo2 % Limb, 2 * r[2] + lo2 \div Limb>>
             fits == r2[2] > d[2] \/ (r2[2] = d[2] /\ r2[1] >= d[1])
             lo == r2[1] - d[1]
         IN IF fits
            THEN DivBits(<<lo % Limb, r2[2] - d[2] - (IF lo < 0 THEN 1 ELSE 0)>>,
                         d, n - 1, 2 * q + 1)
            ELSE DivBits(r2, d, n - 1, 2 * q)

(* Floats (IEEE 754 binary64, round to nearest even): <<s, hi, lo, e>> is     *)
(* s * (hi * 2^27 + lo) * 2^e with s in {1, -1} and 2^52 <= hi * 2^27 + lo    *)
(* < 2^53; <<0, 0, 0, 0>> is zero, <<0, 0, 0, 1>> NaN, <<s, 0, 0, 1>> the     *)
(* infinities.  The sign of zero, overflow and subnormal numbers are left out *)

NaN == <<0, 0, 0, 1>>
Zero == <<0, 0, 0, 0>>
Inf(s) == <<s, 0, 0, 1>>

IsNaN(x) == x = NaN
IsInf(x) == x[1] # 0 /\ x[2] = 0
IsFinite(x) == x[2] # 0 \/ x = Zero
IsZero(x) == x = Zero

Mant(x) == <<x[3], x[2]>>

\* the float s * m * 2^e for 2^52 <= m <= 2^53
Float(s, m, e) ==
    IF m[2] = 2^26 THEN <<s, 2^25, 0, e + 1>> ELSE <<s, m[2], m[1], e>>

\* the float nearest to s * n * 2^e for n of len bits
PackBits(s, n, e, sticky, len) ==
    IF len <= 53
    THEN Float(s, NShl(n, 53 - len), e - (53 - len))
    ELSE Float(s, NShrRound(n, len - 53, sticky), e + (len - 53))

\* the float nearest to s * n * 2^e (a little above it if sticky)
Pack(s, n, e, sticky) ==
    IF n = <<>> THEN Zero ELSE PackBits(s, n, e, sticky, NBitLen(n))

\* the float of an integer
R(n) == Pack(IF n < 0 THEN -1 ELSE 1, NTrim(<<Abs(n) % Limb, Abs(n) \div Limb>>), 0, FALSE)

RNeg(x) == <<-x[1], x[2], x[3], x[4]>>

RAbs(x) == <<Abs(x[1]), x[2], x[3], x[4]>>

\* |x| < |y| for finite nonzero x and y
MagLess(x, y) ==
    IF x[4] # y[4] THEN x[4] < y[4]
    ELSE IF x[2] # y[2] THEN x[2] < y[2]
    ELSE x[3] < y[3]

\* a + b, or a - b for a >= b
NAddSub(a, b, add) == NTrim(IF add THEN NAddFrom(a, b, 1, 0) ELSE NSubFrom(a, b, 1, 0))

\* x + y for finite nonzero x and y with |x| >= |y|
AddOrdered(x, y) ==
    IF x[4] - y[4] > 54 THEN x
    ELSE Pack(x[1], NAddSub(NShl(Mant(x), x[4] - y[4]), Mant(y), x[1] = y[1]), y[4], FALSE)

RAdd(x, y) ==
    IF IsNaN(x) \/ IsNaN(y) THEN NaN
    ELSE IF IsInf(x) /\ IsInf(y) THEN (IF x = y THEN x ELSE NaN)
    ELSE IF IsInf(x) THEN x
    ELSE IF IsInf(y) THEN y
    ELSE IF IsZero(x) THEN y
    ELSE IF IsZero(y) THEN x
    ELSE AddOrdered(IF MagLess(x, y) THEN y ELSE x, IF MagLess(x, y) THEN x ELSE y)

RSub(x, y) == RAdd(x, RNeg(y))

RMul(x, y) ==
    IF IsNaN(x) \/ IsNaN(y) THEN NaN
    ELSE IF IsInf(x) \/ IsInf(y)
    THEN (IF IsZero(x) \/ IsZero(y) THEN NaN ELSE Inf(x[1] * y[1]))
    ELSE IF IsZero(x) \/ IsZero(y) THEN Zero
    ELSE Pack(x[1] * y[1], NMul2(Mant(x), Mant(y)), x[4] + y[4], FALSE)

\* 27 more bits after the quotient bits s[1]: <<s[1], <<bits, remainder>>>>
DivMore(s, d) == <<s[1], DivBits(s[2], d, 27, 0)>>

\* the first 55 bits of a / d for 1/2 < a / d < 2, with the remainder, q0
\* being the whole part: <<q0, <<bits 1..27, <<bits 28..54, remainder>>>>>>
Quotient(a, d, q0) ==
    <<q0, DivMore(DivBits(IF q0 = 1 THEN NSubFrom(a, d, 1, 0) ELSE a, d, 27, 0), d)>>

DivPack(s, e, q) ==
    Pack(s, NTrim(<<q[2][2][1], q[2][1], q[1]>>), e, q[2][2][2] # <<0, 0>>)

\* x / y for finite nonzero x and y
DivFinite(x, y) ==
    IF y[2] = 2^25 /\ y[3] = 0
    THEN <<x[1] * y[1], x[2], x[3], x[4] - y[4] - 52>>
    ELSE DivPack(x[1] * y[1], x[4] - y[4] - 54,
                 Quotient(Mant(x), Mant(y), IF NLess(Mant(x), Mant(y)) THEN 0 ELSE 1))

RDiv(x, y) ==
    IF IsNaN(x) \/ IsNaN(y) THEN NaN
    ELSE IF IsInf(y) THEN (IF IsInf(x) THEN NaN ELSE Zero)
    ELSE IF IsInf(x) THEN Inf(x[1] * (IF y[1] < 0 THEN -1 ELSE 1))
    ELSE IF IsZero(y) THEN (IF IsZero(x) THEN NaN ELSE Inf(x[1]))
    ELSE IF IsZero(x) THEN Zero
    ELSE DivFinite(x, y)

\* x < y; every comparison with NaN is false
RLt(x, y) ==
    IF IsNaN(x) \/ IsNaN(y) THEN FALSE
    ELSE IF x = y THEN FALSE
    ELSE IF IsInf(x) THEN x[1] < 0
    ELSE IF IsInf(y) THEN y[1] > 0
    ELSE IF x[1] # y[1] THEN x[1] < y[1]
    ELSE IF x[1] > 0 THEN MagLess(x, y)
    ELSE MagLess(y, x)

RLe(x, y) ==
    IF IsNaN(x) \/ IsNaN(y) THEN FALSE ELSE ~RLt(y, x)

\* numpy.rint: to the nearest integer, ties to even
Rint(x) ==
    IF ~IsFinite(x) \/ IsZero(x) \/ x[4] >= 0 THEN x
    ELSE IF -x[4] > 54 THEN Zero
    ELSE Pack(x[1], NShrRound(Mant(x), -x[4], FALSE), 0, FALSE)

\* round(x, 2) of a numpy float: rint(x * 100) / 100
Round2(x) == RDiv(Rint(RMul(x, R(100))), R(100))

\* the sum of a column of fewer than 8 rows: from 0, one row after the other
RECURSIVE SumSeq(_)
SumSeq(s) ==
    IF s = <<>> THEN Zero ELSE RAdd(SumSeq(SubSeq(s, 1, Len(s) - 1)), s[Len(s)])

\* the float of the decimal n / d, for d a power of ten up to 1000
Dec(n, d) == RDiv(R(n), R(d))

\* a float that is a whole number
IsWhole(x) == IsFinite(x) /\ Rint(x) = x

\* Series.sum(): NaN entries are skipped (skipna), the empty sum is 0
PandasSum(s) == SumSeq(SelectSeq(s, LAMBDA x : ~IsNaN(x)))

----------------------------------------------------------------------------
(* Parameters (the "Parameters" cell) *)

TAX_RATE == Dec(275, 1000)

Methods == {"ACB", "FIFO", "LIFO", "HIFO"}

----------------------------------------------------------------------------
(* The transaction log: rows [Date, Type, TypeOrig, Asset, Units, UnitPrice] *)

Assets == {"BTC", "ETH"}

Row(d, t, a, u, p) ==
    [Date |-> d, Type |-> t, TypeOrig |-> t, Asset |-> a, Units |-> u, UnitPrice |-> p]

\* <<units, unit price>> of the purchase orders of the input
LotSizes == {<<1, 1>>, <<2, 2>>}

\* rows that create a purchase order, before normalisation, without their date
\* (the unit price of an airdrop is blank)
AcquisitionKinds ==
    {Row(0, "Purchase", "BTC", R(l[1]), R(l[2])) : l \in LotSizes}
        \cup {Row(0, "Mining", "BTC", R(2), R(1))}
        \cup {Row(0, "Airdrop", "ETH", R(2), NaN)}

\* events that change the balance, as the rows they make in the log: sells
\* and swaps (the row of the asset given, then the row of the asset received;
\* their unit price is blank)
EventKinds ==
    {<<Row(0, "Sell", "BTC", R(1), R(3))>>,
     <<Row(0, "Sell", "BTC", R(3), R(1))>>,
     <<Row(0, "Sell", "ETH", R(2), R(3))>>,
     <<Row(0, "Swap", "BTC", R(1), NaN), Row(0, "Swap", "ETH", R(2), NaN)>>,
     <<Row(0, "Swap", "BTC", R(3), NaN), Row(0, "Swap", "ETH", R(2), NaN)>>,
     <<Row(0, "Swap", "ETH", R(2), NaN), Row(0, "Swap", "BTC", R(1), NaN)>>}

\* purchase orders and events of units that are not binary fractions: their
\* sums and differences are rounded
FractionalAcquisitionKinds ==
    {Row(0, "Purchase", "BTC", Dec(1, 10), R(1)),
     Row(0, "Purchase", "BTC", Dec(2, 10), R(2)),
     Row(0, "Purchase", "BTC", Dec(7, 10), R(2))}

FractionalEventKinds ==
    {<<Row(0, "Sell", "BTC", Dec(3, 10), R(3))>>,
     <<Row(0, "Sell", "BTC", Dec(8, 10), R(3))>>,
     <<Row(0, "Swap", "BTC", Dec(3, 10), NaN), Row(0, "Swap", "ETH", R(2), NaN)>>}

\* the rows of one entry, dated
Dated(rows, d) == [j \in 1..Len(rows) |-> [rows[j] EXCEPT !.Date = d]]

\* logs of exactly n entries of the given kinds, dates in lo..MaxDate, in
\* chronological order
RECURSIVE EntryLogs(_, _, _)
EntryLogs(kinds, lo, n) ==
    IF n = 0 THEN {<<>>}
    ELSE UNION {{Dated(k, d) \o rest : k \in kinds, rest \in EntryLogs(kinds, d, n - 1)} :
                    d \in lo..MaxDate}

\* logs of 1..MaxPurchases acquisitions, the first dated 1
AcquisitionLogs(kinds) ==
    UNION {{<<[k EXCEPT !.Date = 1]>> \o rest :
                k \in kinds, rest \in EntryLogs({<<a>> : a \in kinds}, 1, n - 1)} :
            n \in 1..MaxPurchases}

\* a log can have no event, and its first event can be dated 1, when no
\* purchase order is older than it
EventLogs(kinds) == UNION {EntryLogs(kinds, 1, n) : n \in 0..MaxEvents}

----------------------------------------------------------------------------
(* Sorting: DataFrame.sort_values with the default kind, quicksort, which
   is free to leave rows of equal keys in any order *)

\* the orders of the rows at the positions idxs in which no row comes ahead
\* of a row it must follow; ahead[i][j]: row i must come somewhere before
\* row j
RECURSIVE OrdersOf(_, _, _)
OrdersOf(s, ahead, idxs) ==
    IF idxs = {} THEN {<<>>}
    ELSE UNION {{<<s[i]>> \o rest : rest \in OrdersOf(s, ahead, idxs \ {i})} :
                   i \in {i \in idxs : \A j \in idxs : ~ahead[j][i]}}

\* the frames a sort can give
SortBy(s, ahead) == OrdersOf(s, ahead, 1..Len(s))

SortByDate(s) ==
    SortBy(s, [i \in 1..Len(s) |-> [j \in 1..Len(s) |-> s[i].Date < s[j].Date]])

SortByDateDesc(s) ==
    SortBy(s, [i \in 1..Len(s) |-> [j \in 1..Len(s) |-> s[i].Date > s[j].Date]])

SortByUnits(s) ==
    SortBy(s, [i \in 1..Len(s) |-> [j \in 1..Len(s) |-> RLt(s[i].Units, s[j].Units)]])

\* descending by unit price; the rows whose unit price is NaN come last, in
\* the order they had
SortByUnitPriceDesc(s) ==
    SortBy(s, [i \in 1..Len(s) |-> [j \in 1..Len(s) |->
                  IF IsNaN(s[i].UnitPrice) THEN IsNaN(s[j].UnitPrice) /\ i < j
                  ELSE IsNaN(s[j].UnitPrice) \/ RLt(s[j].UnitPrice, s[i].UnitPrice)]])

\* the log in chronological order, acquisitions ahead of the events of their date
Chronological(s) ==
    CHOOSE r \in SortBy(s, [i \in 1..Len(s) |-> [j \in 1..Len(s) |->
                               s[i].Date < s[j].Date \/ (s[i].Date = s[j].Date /\ i < j)]]) :
        TRUE

LogsOf(acquisitions, events) ==
    {Chronological(a \o e) : a \in AcquisitionLogs(acquisitions), e \in EventLogs(events)}

RawLogs ==
    LogsOf(AcquisitionKinds, EventKinds)
        \cup LogsOf(FractionalAcquisitionKinds, FractionalEventKinds)

----------------------------------------------------------------------------
(* Load data *)

\* Airdrops and staking rewards become purchases at unit price 0; mining
\* rewards become purchases at their recorded unit price
Normalize(r) ==
    IF r.Type \in {"Airdrop", "Staking"}
    THEN [r EXCEPT !.UnitPrice = Zero, !.Type = "Purchase"]
    ELSE IF r.Type = "Mining" THEN [r EXCEPT !.Type = "Purchase"]
    ELSE r

LoadTransactions(raw) == [j \in 1..Len(raw) |-> Normalize(raw[j])]

\* the columns a frame is summed over
UnitsColumn(s) == [j \in 1..Len(s) |-> s[j].Units]

CostColumn(s) == [j \in 1..Len(s) |-> RMul(s[j].Units, s[j].UnitPrice)]

df_purchase_of(tx) == SelectSeq(tx, LAMBDA r : r.Type \in {"Purchase", "Airdrop"})

df_mining_of(tx) == SelectSeq(tx, LAMBDA r : r.TypeOrig = "Mining")

df_sales_of(tx) == SelectSeq(tx, LAMBDA r : r.Type = "Sell")

\* the [Date, Type] of the rows that are not purchases, without duplicates
\* (the first of equal pairs is kept)
change_events_of(tx) ==
    LET ne == SelectSeq(tx, LAMBDA r : r.Type # "Purchase")
        first(j) == \A k \in 1..(j - 1) :
                        ~(ne[k].Date = ne[j].Date /\ ne[k].Type = ne[j].Type)
        keep == {j \in 1..Len(ne) : first(j)}
        pos(k) == CHOOSE j \in keep : Cardinality({m \in keep : m < j}) = k - 1
    IN [k \in 1..Cardinality(keep) |-> [Date |-> ne[pos(k)].Date, Type |-> ne[pos(k)].Type]]

----------------------------------------------------------------------------
(* Functions *)

\* tax_calculator_ACB taxing every gain, also a negative one
tax_calculator_ACB_NoFloor(selling_units, selling_price, average_purchase_price) ==
    LET capital_gain == RSub(RMul(selling_units, selling_price),
                             RMul(selling_units, average_purchase_price))
    IN [capital_gain |-> capital_gain, taxes |-> RMul(capital_gain, TAX_RATE)]

tax_calculator_ACB(selling_units, selling_price, average_purchase_price) ==
    LET average_purchase_value == RMul(selling_units, average_purchase_price)
        sold_value == RMul(selling_units, selling_price)
        capital_gain == RSub(sold_value, average_purchase_value)
        taxes == IF RLt(Zero, capital_gain) THEN RMul(capital_gain, TAX_RATE) ELSE Zero
    IN [capital_gain |-> capital_gain, taxes |-> taxes]

calculate_units_to_remove_from_purchase_order(purchase_order_units, units_to_sell_avg, number_of_purchase_orders, counter_order) ==
    LET units_diff == RSub(purchase_order_units, units_to_sell_avg)
        n == number_of_purchase_orders - counter_order
    IN IF RLt(units_diff, Zero)
       THEN [units_to_sell |-> purchase_order_units,
             units_to_sell_avg |-> RAdd(units_to_sell_avg, RDiv(RAbs(units_diff), R(n)))]
       ELSE [units_to_sell |-> units_to_sell_avg,
             units_to_sell_avg |-> units_to_sell_avg]

\* the positions of the rows of the asset in a frame, in the order of the frame
RECURSIVE RowsOfAsset(_, _, _)
RowsOfAsset(df, asset, j) ==
    IF j > Len(df) THEN <<>>
    ELSE (IF df[j].Asset = asset THEN <<j>> ELSE <<>>) \o RowsOfAsset(df, asset, j + 1)

\* the loop of update_balance from purchase order counter_order on; orders
\* holds the positions of the purchase orders of the asset
RECURSIVE update_balance_loop(_, _, _, _, _, _)
update_balance_loop(df_balance, orders, counter_order, units_to_sell_avg, number_of_purchase_orders, tot_units_sold) ==
    IF counter_order > Len(orders)
    THEN [df_balance |-> df_balance, tot_units_sold |-> tot_units_sold]
    ELSE LET j == orders[counter_order]
             r == calculate_units_to_remove_from_purchase_order(
                      df_balance[j].Units, units_to_sell_avg,
                      number_of_purchase_orders, counter_order)
         IN update_balance_loop(
                [df_balance EXCEPT ![j].Units = RSub(@, r.units_to_sell)],
                orders, counter_order + 1, r.units_to_sell_avg,
                number_of_purchase_orders, RAdd(tot_units_sold, r.units_to_sell))

\* update_balance leaving the emptied purchase orders in the balance
update_balance_KeepsEmptied(df_balance_asset, total_units_to_sell, asset_to_sell) ==
    LET orders == RowsOfAsset(df_balance_asset, asset_to_sell, 1)
    IN update_balance_loop(df_balance_asset, orders, 1,
                           RDiv(total_units_to_sell, R(Len(orders))), Len(orders), Zero)

\* df_balance and df_balance_asset are the same frame at both call sites
update_balance(df_balance_asset, total_units_to_sell, asset_to_sell) ==
    LET orders == RowsOfAsset(df_balance_asset, asset_to_sell, 1)
        number_of_purchase_orders == Len(orders)
        units_to_sell_avg == RDiv(total_units_to_sell, R(number_of_purchase_orders))
        res == update_balance_loop(df_balance_asset, orders, 1, units_to_sell_avg,
                                   number_of_purchase_orders, Zero)
    IN [df_balance |-> SelectSeq(res.df_balance, LAMBDA r : RLt(Zero, r.Units)),
        tot_units_sold |-> res.tot_units_sold]

\* the loop of tax_calculator_XYFO from purchase order j on
RECURSIVE XYFO_loop(_, _, _, _, _, _)
XYFO_loop(rows, j, units_to_sell, tot_units_sold, capital_gain, selling_price) ==
    IF j > Len(rows)
    THEN [df_balance |-> rows, tot_units_sold |-> tot_units_sold,
          capital_gain |-> capital_gain]
    ELSE LET row_b == rows[j]
         IN IF RLe(row_b.Units, units_to_sell)
            THEN XYFO_loop([rows EXCEPT ![j].Units = Zero], j + 1,
                           RSub(units_to_sell, row_b.Units),
                           RAdd(tot_units_sold, row_b.Units),
                           RAdd(capital_gain,
                                RMul(row_b.Units, RSub(selling_price, row_b.UnitPrice))),
                           selling_price)
            ELSE [df_balance |-> [rows EXCEPT ![j].Units = RSub(row_b.Units, units_to_sell)],
                  tot_units_sold |-> RAdd(tot_units_sold, units_to_sell),
                  capital_gain |->
                      RAdd(capital_gain,
                           RMul(units_to_sell, RSub(selling_price, row_b.UnitPrice)))]

tax_calculator_XYFO(selling_units, selling_price, df_balance_temp) ==
    LET res == XYFO_loop(df_balance_temp, 1, selling_units, Zero, Zero, selling_price)
        taxes == IF RLt(Zero, res.capital_gain)
                 THEN RMul(res.capital_gain, TAX_RATE) ELSE Zero
    IN [capital_gain |-> res.capital_gain, taxes |-> taxes,
        df_balance |-> res.df_balance, tot_units_sold |-> res.tot_units_sold]

SnapshotRow(r, date) ==
    [Date |-> date, Asset |-> r.Asset, Units |-> r.Units, UnitPrice |-> r.UnitPrice]

take_balance_snapshot(evolution, balance, date) ==
    evolution \o [j \in 1..Len(balance) |-> SnapshotRow(balance[j], date)]

\* sum(Units * Unit Price) / sum(Units) of a frame of purchase orders
PooledAverage(rows) ==
    RDiv(PandasSum(CostColumn(rows)),
         PandasSum(UnitsColumn(rows)))

----------------------------------------------------------------------------
(* State *)

VARIABLES
    METHOD,                  \* the configured method
    df_transactions,         \* the normalised transaction log
    df_balance,              \* the balance: the open purchase orders
    sales_taxes,             \* one record per recorded sell
    df_balance_evolution,    \* the balance snapshots
    average_purchase_price,  \* <<>> while the name is unbound, else <<value>>
    idx,                     \* position of the event loop in change_events
    df_tax,                  \* the tax table assembled after the loop
    pc                       \* "loop", "done", or the exception that ended the run

vars == <<METHOD, df_transactions, df_balance, sales_taxes, df_balance_evolution,
          average_purchase_price, idx, df_tax, pc>>

\* the purchase orders before the first event
BeforeFirstEvent(balance, tx) ==
    LET first_transaction_date == SelectSeq(tx, LAMBDA r : r.Type # "Purchase")[1].Date
    IN SelectSeq(balance, LAMBDA r : r.Date < first_transaction_date)

\* .iloc[0] of a log without events, .iloc[-1] of an empty balance
RaisesIndexError(balance, tx) ==
    \/ SelectSeq(tx, LAMBDA r : r.Type # "Purchase") = <<>>
    \/ BeforeFirstEvent(balance, tx) = <<>>

\* balance before the first event, every row dated as the last of them
InitialSnapshot(balance, tx) ==
    LET rows == BeforeFirstEvent(balance, tx)
    IN [j \in 1..Len(rows) |-> SnapshotRow(rows[j], rows[Len(rows)].Date)]

InitWith(m, tx, purchases) ==
    /\ METHOD = m
    /\ df_transactions = tx
    /\ df_balance = purchases
    /\ sales_taxes = <<>>
    /\ df_balance_evolution =
           IF RaisesIndexError(purchases, tx) THEN <<>> ELSE InitialSnapshot(purchases, tx)
    /\ average_purchase_price = <<>>
    /\ idx = 1
    /\ df_tax = <<>>
    /\ pc = IF RaisesIndexError(purchases, tx) THEN "IndexError" ELSE "loop"

InitFrom(m, tx) == InitWith(m, tx, df_purchase_of(tx))

Init == \E raw \in RawLogs, m \in Methods : InitFrom(m, LoadTransactions(raw))

----------------------------------------------------------------------------
(* The event loop *)

change_events == change_events_of(df_transactions)

\* the change event of the current iteration
change == change_events[idx]

InLoop == pc = "loop" /\ idx <= Len(change_events)

\* the purchase orders of the asset before the date
BalanceAssetOf(balance, asset, date) ==
    SelectSeq(balance, LAMBDA r : r.Asset = asset /\ r.Date < date)

\* the balances the rebuild can give: the updated orders of the asset, the
\* orders of the other assets before the event, and the orders after the
\* event, sorted by date
RebuildBalance(balance, df_balance_asset_updated, asset, date) ==
    SortByDate(df_balance_asset_updated
               \o SelectSeq(balance, LAMBDA r : r.Asset # asset /\ r.Date < date)
               \o SelectSeq(balance, LAMBDA r : r.Date > date))

\* the snapshot call without the cut at the date of the event
SnapshotAfter_AllLots(evolution, balance, date) ==
    take_balance_snapshot(evolution, balance, date)

SnapshotAfter(evolution, balance, date) ==
    take_balance_snapshot(evolution, SelectSeq(balance, LAMBDA r : r.Date <= date), date)

(* Swap *)

SwapRowsOf(tx, date) == SelectSeq(tx, LAMBDA r : r.Type = "Swap" /\ r.Date = date)

\* SwapPrice with the swap ratio upside down
SwapPrice_Inverted(df_balance_asset, asset_out, asset_in) ==
    RDiv(RMul(PooledAverage(df_balance_asset), asset_in.Units), asset_out.Units)

SwapPrice(df_balance_asset, asset_out, asset_in) ==
    RDiv(RMul(PooledAverage(df_balance_asset), asset_out.Units), asset_in.Units)

SwapUpdated(df_balance_asset, asset_out, asset_in, price) ==
    update_balance(df_balance_asset, asset_out.Units, asset_out.Asset).df_balance
        \o <<[asset_in EXCEPT !.UnitPrice = price]>>

SwapOutcomeFor(balance, df_balance_asset, asset_out, asset_in, date, price) ==
    {[average_purchase_price |-> <<price>>, df_balance |-> rebuilt] :
        rebuilt \in RebuildBalance(balance,
                                   SwapUpdated(df_balance_asset, asset_out, asset_in, price),
                                   asset_out.Asset, date)}

SwapOutcomeOn(balance, df_balance_asset, asset_out, asset_in, date) ==
    SwapOutcomeFor(balance, df_balance_asset, asset_out, asset_in, date,
                   SwapPrice(df_balance_asset, asset_out, asset_in))

\* what the swap branch can compute on a balance for the swap rows of the date
SwapOutcome(balance, swap, date) ==
    SwapOutcomeOn(balance, BalanceAssetOf(balance, swap[1].Asset, date),
                  swap[1], swap[2], date)

ApplySwap(o, date) ==
    /\ average_purchase_price' = o.average_purchase_price
    /\ df_balance' = o.df_balance
    /\ df_balance_evolution' = SnapshotAfter(df_balance_evolution, o.df_balance, date)
    /\ idx' = idx + 1
    /\ UNCHANGED <<METHOD, df_transactions, sales_taxes, df_tax, pc>>

SwapEvent(date) ==
    \E o \in SwapOutcome(df_balance, SwapRowsOf(df_transactions, date), date) :
        ApplySwap(o, date)

ProcessSwap ==
    /\ InLoop
    /\ change.Type = "Swap"
    /\ SwapEvent(change.Date)

(* Sell *)

SellRowOf(tx, date) == SelectSeq(tx, LAMBDA r : r.Type = "Sell" /\ r.Date = date)[1]

\* the sell branch without its check of the units held
SellSufficient_Unchecked(sell, df_balance_asset) == TRUE

SellSufficient(sell, df_balance_asset) ==
    RLe(sell.Units, PandasSum(UnitsColumn(df_balance_asset)))

\* the orders the sort of the method can leave the filtered balance in
SellSorted(method, df_balance_asset) ==
    CASE method = "ACB" -> SortByUnits(df_balance_asset)
      [] method = "FIFO" -> SortByDate(df_balance_asset)
      [] method = "LIFO" -> SortByDateDesc(df_balance_asset)
      [] method = "HIFO" -> SortByUnitPriceDesc(df_balance_asset)

\* the ACB branch averaging the purchase orders left after the update
SellACB_AfterDepletion(sell, sorted, avg) ==
    [tax |-> tax_calculator_ACB(
                 sell.Units, sell.UnitPrice,
                 PooledAverage(update_balance(sorted, sell.Units, sell.Asset).df_balance)),
     upd |-> update_balance(sorted, sell.Units, sell.Asset),
     average_purchase_price |-> <<avg>>]

SellACB(sell, sorted, avg) ==
    [tax |-> tax_calculator_ACB(sell.Units, sell.UnitPrice, avg),
     upd |-> update_balance(sorted, sell.Units, sell.Asset),
     average_purchase_price |-> <<avg>>]

SellXYFO(res, bound) ==
    [tax |-> [capital_gain |-> res.capital_gain, taxes |-> res.taxes],
     upd |-> [df_balance |-> SelectSeq(res.df_balance, LAMBDA r : RLt(Zero, r.Units)),
              tot_units_sold |-> res.tot_units_sold],
     average_purchase_price |-> bound]

\* capital gain and taxes, updated orders of the asset, and average purchase
\* price as they stand when the sell reaches sales_taxes.append
SellComputed(method, sell, sorted, bound) ==
    IF method = "ACB"
    THEN SellACB(sell, sorted, PooledAverage(sorted))
    ELSE SellXYFO(tax_calculator_XYFO(sell.Units, sell.UnitPrice, sorted), bound)

SalesTaxRecord(c) ==
    [CapitalGain |-> c.tax.capital_gain,
     Taxes |-> c.tax.taxes,
     NetProfit |-> RSub(c.tax.capital_gain, c.tax.taxes),
     AverageUnitPrice |-> Round2(c.average_purchase_price[1])]

SellRecorded(balance, sell, date, c) ==
    {[pc |-> "loop",
      average_purchase_price |-> c.average_purchase_price,
      record |-> <<SalesTaxRecord(c)>>,
      df_balance |-> rebuilt] :
        rebuilt \in RebuildBalance(balance, c.upd.df_balance, sell.Asset, date)}

SellRaised(exception, balance, bound) ==
    [pc |-> exception, average_purchase_price |-> bound, record |-> <<>>,
     df_balance |-> balance]

\* sales_taxes.append reads average_purchase_price, which FIFO, LIFO and HIFO
\* never assign: NameError unless an earlier swap has bound the name
SellAppend(balance, sell, date, c) ==
    IF c.average_purchase_price = <<>>
    THEN {SellRaised("NameError", balance, c.average_purchase_price)}
    ELSE SellRecorded(balance, sell, date, c)

SellOutcomeOn(method, balance, bound, sell, date, df_balance_asset) ==
    IF SellSufficient(sell, df_balance_asset)
    THEN UNION {SellAppend(balance, sell, date, SellComputed(method, sell, sorted, bound)) :
                    sorted \in SellSorted(method, df_balance_asset)}
    ELSE {SellRaised("TooManyUnits", balance, bound)}

\* what the sell branch can do on a balance for the sell row of the date
SellOutcome(method, balance, bound, sell, date) ==
    SellOutcomeOn(method, balance, bound, sell, date,
                  BalanceAssetOf(balance, sell.Asset, date))

ApplySell(o, date) ==
    /\ o.pc = "loop"
    /\ average_purchase_price' = o.average_purchase_price
    /\ sales_taxes' = sales_taxes \o o.record
    /\ df_balance' = o.df_balance
    /\ df_balance_evolution' = SnapshotAfter(df_balance_evolution, o.df_balance, date)
    /\ idx' = idx + 1
    /\ UNCHANGED <<METHOD, df_transactions, df_tax, pc>>

RaiseInSell(o, exception) ==
    /\ o.pc = exception
    /\ pc' = exception
    /\ UNCHANGED <<METHOD, df_transactions, df_balance, sales_taxes,
                   df_balance_evolution, average_purchase_price, idx, df_tax>>

SellEventOutcome(date) ==
    SellOutcome(METHOD, df_balance, average_purchase_price,
                SellRowOf(df_transactions, date), date)

\* the sell is recorded and the balance updated
ProcessSell ==
    /\ InLoop
    /\ change.Type = "Sell"
    /\ \E o \in SellEventOutcome(change.Date) : ApplySell(o, change.Date)

SellNameError ==
    /\ InLoop
    /\ change.Type = "Sell"
    /\ \E o \in SellEventOutcome(change.Date) : RaiseInSell(o, "NameError")

\* raise Exception("Too many units to be sold! ...")
SellTooManyUnits ==
    /\ InLoop
    /\ change.Type = "Sell"
    /\ \E o \in SellEventOutcome(change.Date) : RaiseInSell(o, "TooManyUnits")

----------------------------------------------------------------------------
(* After the loop: the tax table *)

Missing == NaN

TaxRow(r, t) ==
    [Date |-> r.Date, Asset |-> r.Asset, Units |-> r.Units, UnitPrice |-> r.UnitPrice,
     CapitalGain |-> t.CapitalGain, Taxes |-> t.Taxes, NetProfit |-> t.NetProfit,
     AverageUnitPrice |-> t.AverageUnitPrice]

NoTaxRecord ==
    [CapitalGain |-> Missing, Taxes |-> Missing, NetProfit |-> Missing,
     AverageUnitPrice |-> Missing]

\* df_sales.join(pd.DataFrame(sales_taxes)): row k of the sells gets record k
df_sales_tax_of(df_sales, taxes) ==
    [k \in 1..Len(df_sales) |->
        TaxRow(df_sales[k], IF k <= Len(taxes) THEN taxes[k] ELSE NoTaxRecord)]

MiningTaxRecord(mine) ==
    [CapitalGain |-> mine.UnitPrice,
     Taxes |-> RMul(mine.UnitPrice, TAX_RATE),
     NetProfit |-> RSub(mine.UnitPrice, RMul(mine.UnitPrice, TAX_RATE)),
     AverageUnitPrice |-> mine.UnitPrice]

mining_taxes_of(df_mining) ==
    [k \in 1..Len(df_mining) |-> MiningTaxRecord(df_mining[k])]

df_mining_tax_of(df_mining) ==
    [k \in 1..Len(df_mining) |-> TaxRow(df_mining[k], mining_taxes_of(df_mining)[k])]

df_tax_of(tx, taxes) ==
    SortByDate(df_sales_tax_of(df_sales_of(tx), taxes) \o df_mining_tax_of(df_mining_of(tx)))

AssembleTaxes ==
    /\ pc = "loop"
    /\ idx > Len(change_events)
    /\ df_tax' \in df_tax_of(df_transactions, sales_taxes)
    /\ pc' = "done"
    /\ UNCHANGED <<METHOD, df_transactions, df_balance, sales_taxes,
                   df_balance_evolution, average_purchase_price, idx>>

----------------------------------------------------------------------------

Next ==
    \/ ProcessSwap
    \/ ProcessSell
    \/ SellNameError
    \/ SellTooManyUnits
    \/ AssembleTaxes

Spec == Init /\ [][Next]_vars

----------------------------------------------------------------------------
(* Properties *)

\* the event of the current iteration and what the loop selects for it
AtSell == InLoop /\ change.Type = "Sell"
AtSwap == InLoop /\ change.Type = "Swap"
sell == SellRowOf(df_transactions, change.Date)
asset_out == SwapRowsOf(df_transactions, change.Date)[1]
asset_in == SwapRowsOf(df_transactions, change.Date)[2]

\* the lots of an asset acquired strictly before a date, and their units
LotsBefore(balance, asset, date) ==
    {j \in 1..Len(balance) : balance[j].Asset = asset /\ balance[j].Date < date}

RECURSIVE SumTo(_, _)
SumTo(f, n) == IF n = 0 THEN Zero ELSE RAdd(SumTo(f, n - 1), f[n])

UnitsHeld(balance, asset, date) ==
    SumTo([j \in 1..Len(balance) |->
              IF j \in LotsBefore(balance, asset, date) THEN balance[j].Units ELSE Zero],
          Len(balance))

\* the units left are the units held minus the units removed, up to the
\* rounding of the sums
Tolerance == Dec(1, 10^9)

Conserved(left, held, removed) ==
    RLe(RAbs(RSub(left, RSub(held, removed))), Tolerance)

SellPassesCheck == AtSell /\ RLe(sell.Units, UnitsHeld(df_balance, sell.Asset, change.Date))

SwapCovered == AtSwap /\ RLe(asset_out.Units, UnitsHeld(df_balance, asset_out.Asset, change.Date))

\* C1: every Sell that passes the sufficiency check removes exactly the
\* requested units from the lots of the sold asset acquired before the sell:
\* their units after the sell sum to their units before minus the units sold
\* (up to the rounding of the sums).
C1_SellConservesUnits ==
    [][SellPassesCheck =>
         Conserved(UnitsHeld(df_balance', sell.Asset, change.Date),
                   UnitsHeld(df_balance, sell.Asset, change.Date), sell.Units)]_vars

\* The same for the sells that are recorded: the depletion functions remove
\* exactly the requested units under each of the four methods.
RecordedSellConservesUnits ==
    [][(SellPassesCheck /\ pc' = "loop") =>
         Conserved(UnitsHeld(df_balance', sell.Asset, change.Date),
                   UnitsHeld(df_balance, sell.Asset, change.Date), sell.Units)]_vars

\* C2: every Swap whose units out do not exceed the units held in lots of the
\* asset given acquired before the swap removes exactly the units out from
\* those lots (up to the rounding of the sums), whatever their order and sizes.
C2_SwapConservesUnits ==
    [][SwapCovered =>
         Conserved(UnitsHeld(df_balance', asset_out.Asset, change.Date),
                   UnitsHeld(df_balance, asset_out.Asset, change.Date), asset_out.Units)]_vars

\* C3: every lot of the ledger has units > 0, after every processed event.
C3_LotsPositive ==
    \A j \in 1..Len(df_balance) : RLt(Zero, df_balance[j].Units)

\* a sell or swap has used up a lot and shrunk another
C3_Witness ==
    /\ idx > 1
    /\ Len(df_balance) < Len(df_purchase_of(df_transactions))
    /\ \E j \in 1..Len(df_balance) : ~IsWhole(df_balance[j].Units)

\* C4: a Sell of more units than are held in lots of the sold asset acquired
\* before it is rejected with the fatal error, and the ledger, the tax
\* records and the balance history are then as they were before the event.
C4_SellRejected ==
    [][(AtSell /\ ~RLe(sell.Units, UnitsHeld(df_balance, sell.Asset, change.Date))) =>
         /\ pc' = "TooManyUnits"
         /\ UNCHANGED <<df_balance, sales_taxes, df_balance_evolution>>]_vars

\* a sell was rejected after an earlier event had been processed
C4_Witness ==
    /\ pc = "TooManyUnits"
    /\ idx > 1
    /\ UnitsHeld(df_balance, sell.Asset, change.Date) # Zero

\* C5: a Swap whose units out exceed the units held in lots of the asset
\* given acquired before it (also when there is no such lot) is rejected with
\* a fatal error and changes nothing in the ledger.
C5_SwapRejected ==
    [][(AtSwap /\ ~SwapCovered) => (pc' # "loop" /\ UNCHANGED df_balance)]_vars

\* the rule of a tax record: tax on a positive gain only
TaxRule(r) ==
    /\ RLt(Zero, r.CapitalGain) => r.Taxes = RMul(r.CapitalGain, TAX_RATE)
    /\ RLe(r.CapitalGain, Zero) => r.Taxes = Zero
    /\ r.NetProfit = RSub(r.CapitalGain, r.Taxes)

\* C6: every tax record produced, for a sell under any method and for a
\* mining receipt, has tax = gain * TAX_RATE when the gain is positive, tax = 0
\* when the gain is zero or negative, and net profit = gain - tax.
C6_TaxFloor ==
    /\ \A k \in 1..Len(sales_taxes) : TaxRule(sales_taxes[k])
    /\ \A k \in 1..Len(df_tax) : TaxRule(df_tax[k])

\* a run has ended with a sell at a loss in the tax table next to a mining receipt
C6_Witness ==
    /\ pc = "done"
    /\ Len(df_mining_of(df_transactions)) > 0
    /\ \E k \in 1..Len(sales_taxes) :
           RLt(sales_taxes[k].CapitalGain, Zero) /\ sales_taxes[k].Taxes = Zero

\* the lots of the sold asset acquired before the sell
SellBalanceAsset == BalanceAssetOf(df_balance, sell.Asset, change.Date)

\* the orders the sort of the method can give the eligible lots of the
\* current sell: dates ascend (FIFO), dates descend (LIFO) or unit prices
\* descend (HIFO)
MethodOrder == SellSorted(METHOD, SellBalanceAsset)

InMethodOrder(order) ==
    \A j \in 1..(Len(order) - 1) :
        CASE METHOD = "FIFO" -> order[j].Date <= order[j + 1].Date
          [] METHOD = "LIFO" -> order[j].Date >= order[j + 1].Date
          [] METHOD = "HIFO" -> ~RLt(order[j].UnitPrice, order[j + 1].UnitPrice)
          [] OTHER -> TRUE

RMin(x, y) == IF RLt(y, x) THEN y ELSE x
RMax(x, y) == IF RLt(x, y) THEN y ELSE x

\* units a sell of req units takes from lot k when the lots before it in the
\* order are used up first
Taken(order, k, req) ==
    RMin(order[k].Units,
         RMax(Zero, RSub(req, SumTo([j \in 1..Len(order) |-> order[j].Units], k - 1))))

GainOfTaken(order, req, price) ==
    SumTo([k \in 1..Len(order) |->
              IF Taken(order, k, req) = Zero THEN Zero
              ELSE RMul(Taken(order, k, req), RSub(price, order[k].UnitPrice))],
          Len(order))

LeftAfterTaken(order, req) ==
    SelectSeq([k \in 1..Len(order) |->
                  [order[k] EXCEPT !.Units = RSub(@, Taken(order, k, req))]],
              LAMBDA r : r.Units # Zero)

\* the sell has consumed the lots in one of the orders of the method
XYFORule ==
    /\ \A order \in MethodOrder : InMethodOrder(order)
    /\ Len(sales_taxes') = Len(sales_taxes) + 1
    /\ \E order \in MethodOrder :
           /\ sales_taxes'[Len(sales_taxes')].CapitalGain
                  = GainOfTaken(order, sell.Units, sell.UnitPrice)
           /\ BalanceAssetOf(df_balance', sell.Asset, change.Date)
                  \in SortByDate(LeftAfterTaken(order, sell.Units))

\* C7: under FIFO, LIFO and HIFO a sufficient Sell consumes the eligible lots
\* in the order of the method, each fully before the next and at most one in
\* part, and reports as capital gain the sum over the lots of
\* units taken * (sell price - unit price of the lot).
C7_XYFOConsumesInOrder ==
    [][(SellPassesCheck /\ METHOD \in {"FIFO", "LIFO", "HIFO"}) => XYFORule]_vars

\* The same for the sells that are recorded, over lots of a known unit price
\* (a swap out of an asset with no lot leaves a lot whose unit price is NaN).
RecordedXYFOConsumesInOrder ==
    [][(/\ SellPassesCheck
        /\ METHOD \in {"FIFO", "LIFO", "HIFO"}
        /\ pc' = "loop"
        /\ \A j \in 1..Len(SellBalanceAsset) : ~IsNaN(SellBalanceAsset[j].UnitPrice))
           => XYFORule]_vars

\* sum(units * unit price) / sum(units) over lots, as the frame sums do it
\* (a product that is NaN is left out of its sum)
AverageOf(lots) ==
    RDiv(SumTo([j \in 1..Len(lots) |->
                   IF IsNaN(lots[j].UnitPrice) THEN Zero
                   ELSE RMul(lots[j].Units, lots[j].UnitPrice)], Len(lots)),
         SumTo([j \in 1..Len(lots) |-> lots[j].Units], Len(lots)))

Permuted(lots) ==
    {[j \in 1..Len(lots) |-> lots[f[j]]] : f \in Permutations(1..Len(lots))}

\* C8: under ACB the capital gain of a sufficient Sell is
\* units * sell price - units * A, with A the pooled average price of all the
\* lots of the asset acquired before the sell, taken before any depletion;
\* gain and average price are those of every permutation of these lots.
C8_ACBPooledGain ==
    [][(SellPassesCheck /\ METHOD = "ACB") =>
         /\ Len(sales_taxes') = Len(sales_taxes) + 1
         /\ \A lots \in Permuted(BalanceAssetOf(df_balance, sell.Asset, change.Date)) :
               /\ sales_taxes'[Len(sales_taxes')].CapitalGain
                      = RSub(RMul(sell.Units, sell.UnitPrice),
                             RMul(sell.Units, AverageOf(lots)))
               /\ sales_taxes'[Len(sales_taxes')].AverageUnitPrice
                      = Round2(AverageOf(lots))
               /\ \A sorted \in SortByUnits(lots) :
                      SalesTaxRecord(SellComputed("ACB", sell, sorted, <<>>))
                          = sales_taxes'[Len(sales_taxes')]]_vars

\* an ACB sell took units from two lots of different prices, leaving one open
C8_Witness ==
    /\ METHOD = "ACB"
    /\ Len(sales_taxes) = 1
    /\ IsFinite(sales_taxes[1].AverageUnitPrice)
    /\ ~IsWhole(sales_taxes[1].AverageUnitPrice)
    /\ \E j \in 1..Len(df_balance) : ~IsWhole(df_balance[j].Units)

\* the lots that date from the current swap in a ledger
LotsOfSwap(balance) ==
    SelectSeq(balance, LAMBDA r : r.Type = "Swap" /\ r.Date = change.Date)

\* lot r is a lot of the ledger, whole or in part
FromLedger(r) ==
    \E i \in 1..Len(df_balance) :
        /\ [df_balance[i] EXCEPT !.Units = r.Units] = r
        /\ RLe(r.Units, df_balance[i].Units)

\* C9: a Swap inserts exactly one new lot, of the asset received, dated at
\* the swap, with the units received and the unit price
\* (pooled average price of the lots of the asset given acquired before the
\* swap) * units out / units in, whichever method is configured.
C9_SwapInsertsLot ==
    [][AtSwap =>
         /\ LotsOfSwap(df_balance')
                = <<[asset_in EXCEPT !.UnitPrice =
                        RDiv(RMul(AverageOf(BalanceAssetOf(df_balance, asset_out.Asset,
                                                           change.Date)),
                                  asset_out.Units),
                             asset_in.Units)]>>
         /\ \A j \in 1..Len(df_balance') :
                df_balance'[j] \in {LotsOfSwap(df_balance')[1]} \/ FromLedger(df_balance'[j])]_vars

\* a swap has put a lot in the ledger at a price that is not that of any purchase
C9_Witness ==
    /\ idx > 1
    /\ \E j \in 1..Len(df_balance) :
           /\ df_balance[j].Type = "Swap"
           /\ IsFinite(df_balance[j].UnitPrice)
           /\ ~IsWhole(df_balance[j].UnitPrice)

\* the tax rows of a mining transaction
MiningTaxRows(mine) ==
    SelectSeq(df_tax, LAMBDA r : /\ r.Date = mine.Date
                                 /\ r.Asset = mine.Asset
                                 /\ r.Units = mine.Units
                                 /\ r.UnitPrice = mine.UnitPrice)

\* C10: every Mining transaction yields one tax record with capital gain =
\* unit price * units, average unit price = unit price and tax = gain * TAX_RATE,
\* next to the lot it creates at its recorded unit price.
C10_MiningRecord ==
    pc = "done" =>
        \A k \in 1..Len(df_mining_of(df_transactions)) :
            \E j \in 1..Len(df_tax) :
                /\ df_tax[j] \in {MiningTaxRows(df_mining_of(df_transactions)[k])[1]}
                /\ df_tax[j].CapitalGain
                       = RMul(df_tax[j].UnitPrice, df_tax[j].Units)
                /\ df_tax[j].AverageUnitPrice = df_tax[j].UnitPrice
                /\ df_tax[j].Taxes = RMul(df_tax[j].CapitalGain, TAX_RATE)

----------------------------------------------------------------------------
(* The tax table at the end of a run *)

df_sales == df_sales_of(df_transactions)
df_mining == df_mining_of(df_transactions)

\* row k of the sells carries record k, which the loop appended for that sell
SellRowsCarryOwnRecord ==
    /\ Len(sales_taxes) = Len(df_sales)
    /\ \A k \in 1..Len(df_sales) :
           \E j \in 1..Len(df_tax) : df_tax[j] = TaxRow(df_sales[k], sales_taxes[k])

\* the record a sell row carries is the one appended when that row was the
\* sell of the iteration
AppendedForOwnSell ==
    (AtSell /\ pc' = "loop") =>
        /\ Len(sales_taxes') = Len(sales_taxes) + 1
        /\ Len(sales_taxes') <= Len(df_sales)
        /\ df_sales[Len(sales_taxes')] = sell

SameTimestampSells ==
    \E j, k \in 1..Len(df_sales) : j # k /\ df_sales[j].Date = df_sales[k].Date

\* C11: at the end of a run that did not abort the tax table has one row for
\* every Sell of the input and one for every Mining receipt, none for a Swap,
\* and each sell row carries the gain, tax and net profit computed for that
\* same sell, also when two sells share a timestamp.
C11_OneTaxRowPerSell ==
    /\ [](pc = "done" =>
            /\ Len(df_tax) = Len(df_sales) + Len(df_mining)
            /\ SellRowsCarryOwnRecord)
    /\ [][AppendedForOwnSell]_vars

\* The same for the runs in which no two sells share a timestamp.
DistinctTimestampsOneTaxRowPerSell ==
    /\ [](pc = "done" /\ ~SameTimestampSells =>
            /\ Len(df_tax) = Len(df_sales) + Len(df_mining)
            /\ SellRowsCarryOwnRecord)
    /\ [][~SameTimestampSells => AppendedForOwnSell]_vars

----------------------------------------------------------------------------
(* The lots a sell leaves alone *)

\* a lot that cannot fund a sell of the asset at the date: of another asset,
\* or acquired at the date or after it
NotEligible(r, asset, date) == r.Asset # asset \/ r.Date >= date

\* how many times the lot is in the ledger
TimesIn(balance, r) == Cardinality({j \in 1..Len(balance) : balance[j] = r})

\* every lot that is not eligible for the sell is in the new ledger as often
\* as in the old one, and no such lot has come in
SellFrame ==
    /\ \A j \in 1..Len(df_balance) :
           NotEligible(df_balance[j], sell.Asset, change.Date)
               => TimesIn(df_balance', df_balance[j]) = TimesIn(df_balance, df_balance[j])
    /\ \A j \in 1..Len(df_balance') :
           NotEligible(df_balance'[j], sell.Asset, change.Date)
               => TimesIn(df_balance, df_balance'[j]) = TimesIn(df_balance', df_balance'[j])

LotAtEventDate == \E j \in 1..Len(df_balance) : df_balance[j].Date = change.Date

\* C12: a Sell of asset X at time t leaves unchanged and in the ledger every
\* lot of another asset and every lot of X acquired at t or later; only lots
\* of X acquired strictly before t lose units or are removed.
C12_SellLeavesOtherLots ==
    [][AtSell => SellFrame]_vars

\* The same for the sells at whose date no lot of the ledger was acquired.
SellLeavesLotsOfOtherDates ==
    [][(AtSell /\ ~LotAtEventDate) => SellFrame]_vars

----------------------------------------------------------------------------
(* The lots a swap leaves of the asset given *)

\* the lots of the asset given acquired before the swap
SwapBalanceAsset == BalanceAssetOf(df_balance, asset_out.Asset, change.Date)

\* what the sell branch can leave of these lots for a sell of the units
\* given under the configured method
LeftBySell ==
    {SellComputed(METHOD, asset_out, sorted, average_purchase_price).upd.df_balance :
         sorted \in SellSorted(METHOD, SwapBalanceAsset)}

\* what the swap has left of them
LeftBySwap == BalanceAssetOf(df_balance', asset_out.Asset, change.Date)

SameLots(a, b) ==
    /\ Len(a) = Len(b)
    /\ \A j \in 1..Len(a) : TimesIn(a, a[j]) = TimesIn(b, a[j])

\* C13: a Swap depletes the eligible lots of the asset given with the
\* configured method (FIFO oldest first, LIFO newest first, HIFO highest unit
\* price first, ACB cascading over the lots in ascending order of units): the
\* lots left are those a Sell of the same units under that method leaves.
C13_SwapDepletesByMethod ==
    [][SwapCovered => \E left \in LeftBySell : SameLots(LeftBySwap, left)]_vars

\* What the swap does under every method: the cascading policy over the lots
\* in the order of the ledger.
SwapDepletesByCascade ==
    [][AtSwap => SameLots(LeftBySwap,
                          update_balance(SwapBalanceAsset, asset_out.Units,
                                         asset_out.Asset).df_balance)]_vars

----------------------------------------------------------------------------
(* A sufficient sell is recorded *)

\* the average unit price of the sell's own lots: under ACB that of all the
\* eligible lots, under FIFO, LIFO and HIFO that of the units taken from them
OwnAveragePrice ==
    {IF METHOD = "ACB"
     THEN PooledAverage(sorted)
     ELSE RDiv(RSub(RMul(sell.Units, sell.UnitPrice),
                    tax_calculator_XYFO(sell.Units, sell.UnitPrice, sorted).capital_gain),
               sell.Units) :
         sorted \in SellSorted(METHOD, SellBalanceAsset)}

SellIsRecorded ==
    /\ pc' = "loop"
    /\ idx' = idx + 1
    /\ Len(sales_taxes') = Len(sales_taxes) + 1
    /\ SubSeq(sales_taxes', 1, Len(sales_taxes)) = sales_taxes

\* C14: under each of the four methods and whatever came before, a Sell of
\* no more units than are eligible is recorded: the run does not abort, one
\* tax record is appended, and its average unit price is that of the sell's
\* own eligible lots.
C14_SufficientSellRecorded ==
    [][SellPassesCheck =>
         /\ SellIsRecorded
         /\ \E own \in OwnAveragePrice :
                sales_taxes'[Len(sales_taxes')].AverageUnitPrice = Round2(own)]_vars

\* The same under ACB, where the sell branch assigns the average itself.
ACBSufficientSellRecorded ==
    [][(SellPassesCheck /\ METHOD = "ACB") =>
         /\ SellIsRecorded
         /\ \E own \in OwnAveragePrice :
                sales_taxes'[Len(sales_taxes')].AverageUnitPrice = Round2(own)]_vars

\* Under FIFO, LIFO and HIFO a sufficient sell ends the run with NameError
\* while no swap has bound the name, and otherwise records the value the last
\* swap left in it.
XYFOSellReadsLeftOverAverage ==
    [][(SellPassesCheck /\ METHOD # "ACB") =>
         IF average_purchase_price = <<>>
         THEN pc' = "NameError" /\ UNCHANGED <<df_balance, sales_taxes>>
         ELSE /\ SellIsRecorded
              /\ sales_taxes'[Len(sales_taxes')].AverageUnitPrice
                     = Round2(average_purchase_price[1])]_vars

----------------------------------------------------------------------------
(* The balance history *)

\* the rows the step has appended to the history
Appended ==
    SubSeq(df_balance_evolution', Len(df_balance_evolution) + 1, Len(df_balance_evolution'))

\* the lots open in the new ledger that were acquired at the date or before
OpenUpTo(date) == {j \in 1..Len(df_balance') : df_balance'[j].Date <= date}

IsSnapshotOf(row, lot, date) ==
    /\ row.Date = date
    /\ row.Asset = lot.Asset
    /\ row.Units = lot.Units
    /\ row.UnitPrice = lot.UnitPrice

\* the appended rows are the lots open up to the date, one row per lot, each
\* tagged with the date
SnapshotOfLedger(date) ==
    /\ Len(Appended) = Cardinality(OpenUpTo(date))
    /\ \A k \in 1..Len(Appended) : Appended[k].Date = date
    /\ \A j \in OpenUpTo(date) :
           Cardinality({k \in 1..Len(Appended) : IsSnapshotOf(Appended[k], df_balance'[j], date)})
               = Cardinality({i \in OpenUpTo(date) :
                                 IsSnapshotOf(SnapshotRow(df_balance'[i], date),
                                              df_balance'[j], date)})

EventProcessed == InLoop /\ idx' = idx + 1

\* C15: after every processed Sell or Swap at time t one snapshot is appended
\* to the balance history, holding exactly the lots open in the ledger after
\* the event that were acquired at t or before (later lots left out, the lot
\* received in a swap included), each tagged t; and no step changes or
\* removes an entry appended earlier.
C15_SnapshotAppended ==
    [][/\ Len(df_balance_evolution') >= Len(df_balance_evolution)
       /\ SubSeq(df_balance_evolution', 1, Len(df_balance_evolution)) = df_balance_evolution
       /\ EventProcessed => SnapshotOfLedger(change.Date)]_vars

\* a swap and then a sell have been processed, each has left rows in the
\* history, the lot received in the swap is among them, and a lot acquired
\* after both is in the ledger and not in the history
C15_Witness ==
    /\ pc = "loop"
    /\ idx = 3
    /\ change_events[1].Type = "Swap"
    /\ change_events[2].Type = "Sell"
    /\ Len(sales_taxes) = 1
    /\ \E k \in 1..Len(df_balance_evolution) :
           /\ df_balance_evolution[k].Date = change_events[2].Date
           /\ df_balance_evolution[k].Asset = "ETH"
    /\ \E j \in 1..Len(df_balance) :
           /\ df_balance[j].Date > change_events[2].Date
           /\ \A k \in 1..Len(df_balance_evolution) :
                  df_balance_evolution[k].Date < df_balance[j].Date

====
